---- MODULE Spec2Model ----
(***************************************************************************)
(* Model of the commute monitor of src/web: the refresh operation          *)
(* checkRoutes (logic.js), the tick operation updateTable (logic.js), the  *)
(* signed API client PTVv3.call (ptv.js) and the connection catalog        *)
(* (data.js), driven by the two interval timers of logic.js:129-131.       *)
(*                                                                         *)
(* Instants are milliseconds since the epoch of the model; the API gives   *)
(* departure times with a resolution of one second.                        *)
(***************************************************************************)
EXTENDS Integers, Sequences, FiniteSets, TLC

(***************************************************************************)
(* Bounds of the model.                                                    *)
(***************************************************************************)
\* number of catalog entries that are tracked
NumConnections == 2
\* the clock stops after this many tick periods
MaxTicks == 30
\* the same, where every call of the later refreshes fails
AgingTicks == 31

(***************************************************************************)
(* Program constants.                                                      *)
(***************************************************************************)
\* setInterval(updateTable, 1000, services)
TickPeriod == 1000
\* setInterval(checkRoutes, 30000, services)
RefreshPeriod == 30000
\* max_results: 5
max_results == 5
\* the default value of the parameter buffer of checkRoutes and updateTable
buffer == 120

(***************************************************************************)
(* data.js: the catalog, in the order in which the file lists it.  Only    *)
(* the fields that logic.js reads are kept; walking holds the entries of   *)
(* the stops of the forward direction.                                     *)
(***************************************************************************)
Conn(id, type, dir, origin, destination, walkOrigin, walkDestination, avg) ==
    [id |-> id, type |-> type,
     forward_direction |-> [id |-> dir, origin |-> origin, destination |-> destination],
     walking |-> (origin :> walkOrigin) @@ (destination :> walkDestination),
     duration |-> [avg |-> avg]]

catalog ==
    << Conn(13067, 2, 188, 22875, 33430, 571, 430, 620),
       Conn(13271, 2, 32, 22833, 33430, 115, 430, 1468),
       Conn(14930, 2, 55, 16339, 13496, 740, 519, 944),
       Conn(13820, 2, 260, 10005, 10016, 588, 553, 786),
       Conn(8924, 2, 260, 10005, 33430, 588, 430, 802),
       Conn(8934, 2, 260, 10005, 33430, 588, 430, 808),
       Conn(8922, 2, 260, 10005, 33430, 588, 430, 750),
       Conn(12753, 2, 293, 16339, 33430, 740, 430, 858),
       Conn(11, 0, 10, 1150, 1099, 821, 430, 751),
       Conn(4, 0, 4, 1150, 1099, 821, 430, 751) >>

\* The tracked part of the catalog: NumConnections entries from the fourth
\* on (routes 13820, 8924, ...: they share direction 260 and origin 10005).
connections == SubSeq(catalog, 4, 3 + NumConnections)

RouteIds == {connections[n].id : n \in 1..Len(connections)}

\* connections[id].walking of data.js
WalkingOf(id) == (CHOOSE c \in {connections[n] : n \in 1..Len(connections)} : c.id = id).walking

\* ObjectEntries in the order of the literal
RECURSIVE ListedEntries(_)
ListedEntries(ids) ==
    IF ids = {} THEN << >>
    ELSE LET first == CHOOSE n \in 1..Len(connections) :
                         /\ connections[n].id \in ids
                         /\ \A m \in 1..(n - 1) : connections[m].id \notin ids
         IN  << connections[first] >> \o ListedEntries(ids \ {connections[first].id})

\* Object.entries(connections): the keys are integers, which JavaScript
\* enumerates in ascending numeric order, whatever the order of the literal.
RECURSIVE ObjectEntries(_)
ObjectEntries(ids) ==
    IF ids = {} THEN << >>
    ELSE LET least == CHOOSE a \in ids : \A b \in ids : a <= b
             c == CHOOSE x \in {connections[n] : n \in 1..Len(connections)} : x.id = least
         IN  << c >> \o ObjectEntries(ids \ {least})

entries == ObjectEntries(RouteIds)

totalSteps == Len(entries) * 2

(***************************************************************************)
(* The API as the program sees it.  A nullable field holds null or a       *)
(* one-element tuple with its value.  A payload is a record; a key the     *)
(* server left out is not in its domain.                                   *)
(***************************************************************************)
null == << >>

Run(ref, dir, pos) == [run_ref |-> ref, direction_id |-> dir, vehicle_position |-> pos]

Departure(ref, scheduled, estimated) ==
    [run_ref |-> ref, scheduled_departure_utc |-> scheduled,
     estimated_departure_utc |-> estimated]

\* a payload without the key runs and without the key departures
NoKeyBody == [status |-> "health"]

\* bodies of /v3/runs/route/{routeId}/route_type/{routeType} for connection c
RunsBodies(c) ==
    LET d == c.forward_direction.id
    IN  { [runs |-> << >>],
          [runs |-> << Run("r1", d, << "position" >>) >>],
          [runs |-> << Run("r1", d, null), Run("r2", d + 1, << "position" >>) >>],
          NoKeyBody }

\* depC: scheduled only; depA and depB: estimated later than their schedule
depA == Departure("r1", 580, << 590 >>)
depB == Departure("r2", 589, << 700 >>)
depC == Departure("r1", 589, null)

\* bodies of /v3/departures/route_type/{routeType}/stop/{stopId}/route/{routeId}
DeparturesBodies ==
    { [departures |-> << >>, disruptions |-> << >>],
      [departures |-> << depC >>, disruptions |-> << << " ", "W", " " >> >>],
      [departures |-> << depB, depA >>, disruptions |-> << >>],
      NoKeyBody }

\* a departures body with one departure more than max_results asks for
SurplusBody ==
    [departures |-> [n \in 1..(max_results + 1) |-> IF n % 2 = 1 THEN depC ELSE depA],
     disruptions |-> << >>]

\* What fetch(url) and response.json() settle to.  fetched = FALSE: the
\* signature or the fetch promise rejects; json = FALSE: the body does not
\* decode.
Outcome(fetched, ok, json, body) ==
    [fetched |-> fetched, ok |-> ok, json |-> json, body |-> body]

Failures(bodies) ==
    { Outcome(FALSE, FALSE, FALSE, NoKeyBody), Outcome(TRUE, TRUE, FALSE, NoKeyBody) }
    \cup { Outcome(TRUE, FALSE, TRUE, b) : b \in bodies }

RunsOutcomes(c) ==
    { Outcome(TRUE, TRUE, TRUE, b) : b \in RunsBodies(c) }
    \cup Failures({ [runs |-> << >>] })

DeparturesOutcomes ==
    { Outcome(TRUE, TRUE, TRUE, b) : b \in DeparturesBodies }
    \cup Failures({ [departures |-> << depA >>, disruptions |-> << >>] })

(***************************************************************************)
(* ptv.js: PTVv3.call.  The value of `await ptv.call(...)`: the decoded    *)
(* body, or Thrown when the promise rejects.                               *)
(***************************************************************************)
Thrown == [thrown |-> TRUE]

\* call without the check of response.ok
callNoStatusCheck(outcome) ==
    IF ~outcome.fetched THEN Thrown
    ELSE IF ~outcome.json THEN Thrown
    ELSE outcome.body

\* call that rejects a payload without the key it was asked for
callRequiringKey(outcome) ==
    IF ~outcome.fetched THEN Thrown
    ELSE IF ~outcome.ok THEN Thrown
    ELSE IF ~outcome.json THEN Thrown
    ELSE IF outcome.body = NoKeyBody THEN Thrown
    ELSE outcome.body

call(outcome) ==
    IF ~outcome.fetched THEN Thrown
    ELSE IF ~outcome.ok THEN Thrown
    ELSE IF ~outcome.json THEN Thrown
    ELSE outcome.body

(***************************************************************************)
(* logic.js: checkRoutes, the body of one iteration after both awaits.     *)
(***************************************************************************)
\* `if (runs.runs)`, `if (departures.departures)`: the key holds an array
Truthy(body, key) == key \in DOMAIN body

Range(seq) == {seq[n] : n \in 1..Len(seq)}

\* activeRunsOf without the test of the vehicle position
activeRunsNoPosition(runs, directionId) ==
    IF Truthy(runs, "runs")
    THEN {run.run_ref : run \in {r \in Range(runs.runs) : r.direction_id = directionId}}
    ELSE {}

\* activeRunsOf without the test of the direction
activeRunsAnyDirection(runs, directionId) ==
    IF Truthy(runs, "runs")
    THEN {run.run_ref : run \in {r \in Range(runs.runs) : r.vehicle_position # null}}
    ELSE {}

\* Object.keys(activeRuns) of logic.js:41
activeRunsOf(runs, directionId) ==
    IF Truthy(runs, "runs")
    THEN {run.run_ref : run \in {r \in Range(runs.runs) :
              r.vehicle_position # null /\ r.direction_id = directionId}}
    ELSE {}

\* observe that adds nothing
observeNothing(ever, runs, directionId) == ever

\* observe that keeps this poll's runs only
observeReplacing(ever, runs, directionId) ==
    IF Truthy(runs, "runs") THEN activeRunsOf(runs, directionId) ELSE ever

\* logic.js:42
observe(ever, runs, directionId) ==
    IF Truthy(runs, "runs") THEN activeRunsOf(runs, directionId) \cup ever ELSE ever

\* new Date(isoString): seconds of the API to milliseconds
DateOf(utc) == utc * 1000

\* title.trim() on a title given as its characters
RECURSIVE TrimLeft(_)
TrimLeft(t) == IF t # << >> /\ Head(t) = " " THEN TrimLeft(Tail(t)) ELSE t

RECURSIVE TrimRight(_)
TrimRight(t) ==
    IF t # << >> /\ t[Len(t)] = " " THEN TrimRight(SubSeq(t, 1, Len(t) - 1)) ELSE t

trim(t) == TrimRight(TrimLeft(t))

\* idString without the route
idStringNoRoute(routeId, directionId, stopId, index) == << directionId, stopId, index >>

\* the composite id `${routeId}-${directionId}-${stopId}-${index}`
idString(routeId, directionId, stopId, index) == << routeId, directionId, stopId, index >>

\* departureTimeOf that ignores the estimate
departureTimeScheduled(departure) == DateOf(departure.scheduled_departure_utc)

departureTimeOf(departure) ==
    IF departure.estimated_departure_utc # null
    THEN DateOf(departure.estimated_departure_utc[1])
    ELSE DateOf(departure.scheduled_departure_utc)

\* The number that is not a number: what arithmetic on undefined gives, and
\* the time value of the invalid Date made from it.  No instant of the model
\* is as early as this.
NaN == 0 - 2147483647

\* connection.walking[stop]: undefined, which arithmetic turns into NaN, for a
\* stop that the walking table does not have
walkOf(connection, stop) ==
    IF stop \in DOMAIN connection.walking THEN connection.walking[stop] ELSE NaN

getGoingByOf(connection, departureTime) ==
    LET walkBefore == walkOf(connection, connection.forward_direction.origin)
    IN  IF walkBefore = NaN THEN NaN
        ELSE departureTime - walkBefore * 1000 - buffer * 1000

arriveByOf(connection, departureTime) ==
    LET walkAfter == walkOf(connection, connection.forward_direction.destination)
    IN  IF walkAfter = NaN THEN NaN
        ELSE departureTime + connection.duration.avg * 1000 + walkAfter * 1000

\* Service whose run_active looks the run up in this poll's activeRuns
ServiceActiveNow(connection, index, departure, disruptions, activeRuns, ever) ==
    [id |-> idString(connection.id, connection.forward_direction.id,
                     connection.forward_direction.origin, index),
     run_ref |-> departure.run_ref,
     route_id |-> connection.id,
     health |-> [run_active |-> departure.run_ref \in activeRuns,
                 has_estimated |-> departure.estimated_departure_utc # null,
                 route_active |-> activeRuns # {}],
     get_going_by |-> getGoingByOf(connection, departureTimeOf(departure)),
     arrive_by |-> arriveByOf(connection, departureTimeOf(departure)),
     disruptions |-> [n \in 1..Len(disruptions) |-> trim(disruptions[n])]]

\* logic.js:49-77: the Service stored for departures.departures[index]
Service(connection, index, departure, disruptions, activeRuns, ever) ==
    [id |-> idString(connection.id, connection.forward_direction.id,
                     connection.forward_direction.origin, index),
     run_ref |-> departure.run_ref,
     route_id |-> connection.id,
     health |-> [run_active |-> departure.run_ref \in ever,
                 has_estimated |-> departure.estimated_departure_utc # null,
                 route_active |-> activeRuns # {}],
     get_going_by |-> getGoingByOf(connection, departureTimeOf(departure)),
     arrive_by |-> arriveByOf(connection, departureTimeOf(departure)),
     disruptions |-> [n \in 1..Len(disruptions) |-> trim(disruptions[n])]]

\* services[idString] = ...: the table is an object, which keeps its keys in
\* the order of their first insertion; it is the sequence of its values.
assign(table, service) ==
    IF \E n \in 1..Len(table) : table[n].id = service.id
    THEN [n \in 1..Len(table) |-> IF table[n].id = service.id THEN service ELSE table[n]]
    ELSE Append(table, service)

\* logic.js:45-79: the loop over departures.departures.entries(), from the
\* (0-based) index on
RECURSIVE writeFrom(_, _, _, _, _, _)
writeFrom(table, connection, departures, index, activeRuns, ever) ==
    IF index >= Len(departures.departures) THEN table
    ELSE writeFrom(assign(table, Service(connection, index, departures.departures[index + 1],
                                         departures.disruptions, activeRuns, ever)),
                   connection, departures, index + 1, activeRuns, ever)

writeServices(table, connection, departures, activeRuns, ever) ==
    IF Truthy(departures, "departures")
    THEN writeFrom(table, connection, departures, 0, activeRuns, ever)
    ELSE table

(***************************************************************************)
(* logic.js: updateTable, the rows that one tick publishes.                *)
(***************************************************************************)
\* the place of service in a list sorted by (a, b) => a.arrive_by - b.arrive_by;
\* Array.prototype.sort is stable
\* (a, b) => a.arrive_by - b.arrive_by; sort takes a NaN result for 0
comparator(a, b) ==
    IF a.arrive_by = NaN \/ b.arrive_by = NaN THEN 0 ELSE a.arrive_by - b.arrive_by

RECURSIVE insertSorted(_, _)
insertSorted(sorted, service) ==
    IF sorted = << >> THEN << service >>
    ELSE IF comparator(sorted[Len(sorted)], service) <= 0
         THEN Append(sorted, service)
         ELSE Append(insertSorted(SubSeq(sorted, 1, Len(sorted) - 1), service),
                     sorted[Len(sorted)])

RECURSIVE sortFrom(_, _, _)
sortFrom(sorted, values, n) ==
    IF n > Len(values) THEN sorted
    ELSE sortFrom(insertSorted(sorted, values[n]), values, n + 1)

\* sortedServices that leaves the values in key order
sortedServicesUnsorted(table) == table

\* Object.values(services).sort(...)
sortedServices(table) == sortFrom(<< >>, table, 1)

\* new Date(service.get_going_by - new Date()).getTime()
tdOf(service, clock) ==
    IF service.get_going_by = NaN THEN NaN ELSE service.get_going_by - clock

\* skipped that skips nothing
skippedNever(td) == FALSE

\* skipped that drops the boundary too
skippedAtBoundary(td) == td <= (0 - buffer) * 1000

\* `if (td < -buffer * 1000) continue`
\* a comparison with NaN is false
skipped(td) == td # NaN /\ td < (0 - buffer) * 1000

\* healthScoreOf that leaves route_active out
healthScoreTwoFlags(health) ==
    (IF health.run_active THEN 1 ELSE 0) + (IF health.has_estimated THEN 1 ELSE 0)

\* Object.values(service.health).reduce((acc, val) => acc + (val ? 1 : 0), 0)
healthScoreOf(health) ==
    (IF health.run_active THEN 1 ELSE 0) + (IF health.has_estimated THEN 1 ELSE 0)
    + (IF health.route_active THEN 1 ELSE 0)

Row(service, clock) ==
    [service |-> service, td |-> tdOf(service, clock),
     healthScore |-> healthScoreOf(service.health)]

RECURSIVE rowsFrom(_, _, _)
rowsFrom(sorted, n, clock) ==
    IF n > Len(sorted) THEN << >>
    ELSE IF skipped(tdOf(sorted[n], clock)) THEN rowsFrom(sorted, n + 1, clock)
         ELSE << Row(sorted[n], clock) >> \o rowsFrom(sorted, n + 1, clock)

updateTable(table, clock) == rowsFrom(sortedServices(table), 1, clock)

(***************************************************************************)
(* The state.                                                              *)
(***************************************************************************)
VARIABLES
    now,          \* the clock, in milliseconds since the page was loaded
    tickDue,      \* when setInterval(updateTable, ...) fires next
    refreshDue,   \* when setInterval(checkRoutes, ...) fires next
    services,     \* logic.js:126, the values of the table in key order
    everActive,   \* logic.js:127
    invocation,   \* the invocations of checkRoutes: their position (pc, and k, the
                  \* place of the connection in entries), their locals, the
                  \* settled request they have not resumed from yet (reply) and,
                  \* as history, how many invocations had been started when the
                  \* departures request that they await was issued (since)
    progressBar,  \* progressBar.style.width as << currentStep, totalSteps >>
    tableBody,    \* the rows of the table body that the last tick rendered
    writer,       \* history: writer[n] is the invocation that stored services[n]
    loadedWalking \* connections[routeId].walking as data.js was loaded, by route id

vars == << now, tickDue, refreshDue, services, everActive, invocation,
           progressBar, tableBody, writer, loadedWalking >>

\* the invocations that the timers can start before the clock stops
Invocations == 1..(1 + (MaxTicks * TickPeriod) \div RefreshPeriod)

undefined == [undefined |-> TRUE]

\* an invocation that was not started yet
Idle == [pc |-> "idle", k |-> 0, currentStep |-> 0, runs |-> undefined,
         reply |-> undefined, since |-> 0]

\* checkRoutes up to its first await: logic.js:16-27
Entered == [pc |-> "awaitRuns", k |-> 1, currentStep |-> 0, runs |-> undefined,
            reply |-> undefined, since |-> 0]

\* the number of invocations of checkRoutes so far
startedSoFar == Cardinality({i \in DOMAIN invocation : invocation[i].pc # "idle"})

InFlight(i) == invocation[i].pc \in {"awaitRuns", "awaitDepartures"}

\* InitWith that also runs updateTable at once
InitWithTickAtStart(started) ==
    /\ now = 0
    /\ services = << >>
    /\ everActive = {}
    /\ invocation = [i \in started |-> IF i = 1 THEN Entered ELSE Idle]
    /\ progressBar = << 0, totalSteps >>
    /\ tableBody = << >>
    /\ tickDue = 0
    /\ refreshDue = RefreshPeriod
    /\ writer = << >>
    /\ loadedWalking = [id \in RouteIds |-> WalkingOf(id)]

\* logic.js:126-131, with room for the invocations in started, once data.js
\* was loaded with the walking tables in tables
InitLoaded(started, tables) ==
    /\ now = 0
    /\ services = << >>
    /\ everActive = {}
    /\ invocation = [i \in started |-> IF i = 1 THEN Entered ELSE Idle]
    /\ progressBar = << 0, totalSteps >>
    /\ tableBody = << >>
    /\ tickDue = TickPeriod
    /\ refreshDue = RefreshPeriod
    /\ writer = << >>
    /\ loadedWalking = tables

\* logic.js:126-131 with data.js as it is
InitWith(started) == InitLoaded(started, [id \in RouteIds |-> WalkingOf(id)])

Init == InitWith(Invocations)

Min(a, b) == IF a <= b THEN a ELSE b

\* time passes until the next timer is due, up to the instant horizon
AdvanceTo(horizon) ==
    /\ now < Min(tickDue, refreshDue)
    /\ Min(tickDue, refreshDue) <= horizon
    /\ now' = Min(tickDue, refreshDue)
    /\ UNCHANGED << tickDue, refreshDue, services, everActive, invocation,
                    progressBar, tableBody, writer, loadedWalking >>

Advance == AdvanceTo(MaxTicks * TickPeriod)

\* Tick that deletes from the table the Services that it skips
TickPruning ==
    /\ now = tickDue
    /\ tableBody' = updateTable(services, now)
    /\ services' = SelectSeq(services, LAMBDA service : ~skipped(tdOf(service, now)))
    /\ tickDue' = tickDue + TickPeriod
    /\ UNCHANGED << now, refreshDue, everActive, invocation,
                    progressBar, writer, loadedWalking >>

\* Tick that waits for the refresh in flight
TickWhenIdle ==
    /\ now = tickDue
    /\ \A i \in DOMAIN invocation : ~InFlight(i)
    /\ tableBody' = updateTable(services, now)
    /\ tickDue' = tickDue + TickPeriod
    /\ UNCHANGED << now, refreshDue, services, everActive, invocation,
                    progressBar, writer, loadedWalking >>

\* setInterval(updateTable, 1000, services) fires
Tick ==
    /\ now = tickDue
    /\ tableBody' = updateTable(services, now)
    /\ tickDue' = tickDue + TickPeriod
    /\ UNCHANGED << now, refreshDue, services, everActive, invocation,
                    progressBar, writer, loadedWalking >>

\* RefreshTimer that a rejected invocation has stopped
RefreshTimerUntilFailure ==
    /\ now = refreshDue
    /\ \A i \in DOMAIN invocation : invocation[i].pc # "rejected"
    /\ \E i \in DOMAIN invocation :
          /\ invocation[i].pc = "idle"
          /\ \A j \in DOMAIN invocation : j < i => invocation[j].pc # "idle"
          /\ invocation' = [invocation EXCEPT ![i] = Entered]
    /\ progressBar' = << 0, totalSteps >>
    /\ refreshDue' = refreshDue + RefreshPeriod
    /\ UNCHANGED << now, tickDue, services, everActive, tableBody, writer, loadedWalking >>

\* setInterval(checkRoutes, 30000, services) fires
RefreshTimer ==
    /\ now = refreshDue
    /\ \E i \in DOMAIN invocation :
          /\ invocation[i].pc = "idle"
          /\ \A j \in DOMAIN invocation : j < i => invocation[j].pc # "idle"
          /\ invocation' = [invocation EXCEPT ![i] = Entered]
    /\ progressBar' = << 0, totalSteps >>
    /\ refreshDue' = refreshDue + RefreshPeriod
    /\ UNCHANGED << now, tickDue, services, everActive, tableBody, writer, loadedWalking >>

\* the outcomes that the request which invocation i awaits can have
OutcomesFor(i) ==
    IF invocation[i].pc = "awaitRuns"
    THEN RunsOutcomes(entries[invocation[i].k])
    ELSE DeparturesOutcomes

\* the API settles the request that invocation i awaits
Respond(i) ==
    /\ InFlight(i)
    /\ invocation[i].reply = undefined
    /\ \E outcome \in OutcomesFor(i) :
          invocation' = [invocation EXCEPT ![i].reply = outcome]
    /\ UNCHANGED << now, tickDue, refreshDue, services, everActive,
                    progressBar, tableBody, writer, loadedWalking >>

\* logic.js:27-30: checkRoutes resumes after `await ptv.call(runs ...)`
RunsResume(i) ==
    /\ invocation[i].pc = "awaitRuns"
    /\ invocation[i].reply # undefined
    /\ LET runs == call(invocation[i].reply)
       IN  IF runs = Thrown
           THEN /\ invocation' = [invocation EXCEPT ![i].pc = "rejected",
                                                    ![i].reply = undefined]
                /\ UNCHANGED progressBar
           ELSE /\ invocation' = [invocation EXCEPT ![i].pc = "awaitDepartures",
                                                    ![i].runs = runs,
                                                    ![i].currentStep = @ + 1,
                                                    ![i].reply = undefined,
                                                    ![i].since = startedSoFar]
                /\ progressBar' = << invocation[i].currentStep + 1, totalSteps >>
    /\ UNCHANGED << now, tickDue, refreshDue, services, everActive, tableBody, writer, loadedWalking >>

\* the history of who stored what, once invocation i has stored the Services
\* of the departures of connection in the table
writerAfter(table, connection, departures, i) ==
    LET stored == IF Truthy(departures, "departures")
                  THEN {idString(connection.id, connection.forward_direction.id,
                                 connection.forward_direction.origin, index) :
                            index \in 0..(Len(departures.departures) - 1)}
                  ELSE {}
    IN  [n \in 1..Len(table) |->
            IF table[n].id \in stored \/ n > Len(writer) THEN i ELSE writer[n]]

\* logic.js:30-80: checkRoutes resumes after `await ptv.call(departures ...)`,
\* ends the iteration and enters the next one
DeparturesResume(i) ==
    /\ invocation[i].pc = "awaitDepartures"
    /\ invocation[i].reply # undefined
    /\ LET departures == call(invocation[i].reply)
           connection == [entries[invocation[i].k] EXCEPT
                            !.walking = loadedWalking[entries[invocation[i].k].id]]
           directionId == connection.forward_direction.id
           activeRuns == activeRunsOf(invocation[i].runs, directionId)
           ever == observe(everActive, invocation[i].runs, directionId)
           table == writeServices(services, connection, departures, activeRuns, ever)
           last == invocation[i].k = Len(entries)
       IN  IF departures = Thrown
           THEN /\ invocation' = [invocation EXCEPT ![i].pc = "rejected",
                                                    ![i].reply = undefined,
                                                    ![i].since = 0]
                /\ UNCHANGED << progressBar, everActive, services, writer >>
           ELSE /\ invocation' = [invocation EXCEPT
                                    ![i].pc = IF last THEN "done" ELSE "awaitRuns",
                                    ![i].k = IF last THEN @ ELSE @ + 1,
                                    ![i].currentStep = @ + 1,
                                    ![i].runs = IF last THEN @ ELSE undefined,
                                    ![i].reply = undefined,
                                    ![i].since = 0]
                /\ progressBar' = << invocation[i].currentStep + 1, totalSteps >>
                /\ everActive' = ever
                /\ services' = table
                /\ writer' = writerAfter(table, connection, departures, i)
    /\ UNCHANGED << now, tickDue, refreshDue, tableBody, loadedWalking >>

Next ==
    \/ Advance
    \/ Tick
    \/ RefreshTimer
    \/ \E i \in Invocations : Respond(i)
    \/ \E i \in Invocations : RunsResume(i)
    \/ \E i \in Invocations : DeparturesResume(i)

Spec == Init /\ [][Next]_vars

(***************************************************************************)
(* The program over a longer time, where the API answers a call in any way *)
(* before the instant FailingFrom, and from then on fails every call that  *)
(* it answers.  The timers fire when they are due (logic.js:130-131), and  *)
(* a settled call resumes its invocation.                                  *)
(***************************************************************************)
FailingFrom == TickPeriod

InvocationsAging == 1..(1 + (AgingTicks * TickPeriod) \div RefreshPeriod)

InitAging == InitWith(InvocationsAging)

\* an invocation resumes from a settled call before any time passes
AdvanceAging ==
    /\ \A i \in InvocationsAging : invocation[i].reply = undefined
    /\ AdvanceTo(AgingTicks * TickPeriod)

\* the request that invocation i awaits fails
RespondFailure(i) ==
    /\ InFlight(i)
    /\ invocation[i].reply = undefined
    /\ \E outcome \in {o \in OutcomesFor(i) : ~(o.fetched /\ o.ok /\ o.json)} :
          invocation' = [invocation EXCEPT ![i].reply = outcome]
    /\ UNCHANGED << now, tickDue, refreshDue, services, everActive,
                    progressBar, tableBody, writer, loadedWalking >>

NextAging ==
    \/ AdvanceAging
    \/ Tick
    \/ RefreshTimer
    \/ \E i \in InvocationsAging : now < FailingFrom /\ Respond(i)
    \/ \E i \in InvocationsAging : now >= FailingFrom /\ RespondFailure(i)
    \/ \E i \in InvocationsAging : RunsResume(i)
    \/ \E i \in InvocationsAging : DeparturesResume(i)

FairAging ==
    /\ WF_vars(AdvanceAging)
    /\ WF_vars(Tick)
    /\ WF_vars(RefreshTimer)
    /\ \A i \in InvocationsAging : WF_vars(RunsResume(i)) /\ WF_vars(DeparturesResume(i))

SpecAging == InitAging /\ [][NextAging]_vars /\ FairAging

(***************************************************************************)
(* The program under inputs that the deployed catalog and an API that      *)
(* honours max_results do not produce.  As in SpecAging the API fails      *)
(* every call from FailingFrom on.                                         *)
(***************************************************************************)
\* the walking tables of data.js, and those with the entry of the origin of
\* one connection's forward direction left out.  (A table without the entry
\* of the destination makes arrive_by NaN, and the order that sort gives with
\* a comparator that answers NaN for some pairs only is implementation-
\* defined.)
WalkingTables ==
    { [id \in RouteIds |-> WalkingOf(id)] }
    \cup { [id \in RouteIds |->
               IF id = c.id
               THEN [stop \in DOMAIN WalkingOf(id) \ {c.forward_direction.origin}
                        |-> WalkingOf(id)[stop]]
               ELSE WalkingOf(id)] : c \in Range(entries) }

InitInputs == \E tables \in WalkingTables : InitLoaded(InvocationsAging, tables)

\* the departures request that invocation i awaits gets SurplusBody
RespondSurplus(i) ==
    /\ invocation[i].pc = "awaitDepartures"
    /\ invocation[i].reply = undefined
    /\ invocation' = [invocation EXCEPT ![i].reply = Outcome(TRUE, TRUE, TRUE, SurplusBody)]
    /\ UNCHANGED << now, tickDue, refreshDue, services, everActive,
                    progressBar, tableBody, writer, loadedWalking >>

NextInputs ==
    \/ AdvanceAging
    \/ Tick
    \/ RefreshTimer
    \/ \E i \in InvocationsAging : now < FailingFrom /\ Respond(i)
    \/ \E i \in InvocationsAging : now < FailingFrom /\ RespondSurplus(i)
    \/ \E i \in InvocationsAging : now >= FailingFrom /\ RespondFailure(i)
    \/ \E i \in InvocationsAging : RunsResume(i)
    \/ \E i \in InvocationsAging : DeparturesResume(i)

SpecInputs == InitInputs /\ [][NextInputs]_vars

(***************************************************************************)
(* What the claims speak of.                                               *)
(***************************************************************************)
\* the composite ids of the slot range of connection c
SlotIds(c) ==
    {idString(c.id, c.forward_direction.id, c.forward_direction.origin, index) :
        index \in 0..(max_results - 1)}

\* the Services of table in the slot range of connection c
ServicesOf(table, c) == SelectSeq(table, LAMBDA service : service.id \in SlotIds(c))

\* a request that failed: signing or network, HTTP status, or decoding
Failed(outcome) == ~(outcome.fetched /\ outcome.ok /\ outcome.json)

\* this step is invocation i resuming from the departures call of its connection
\* with a decoded payload, i.e. a poll of that connection completes
PollCompletes(i) ==
    /\ invocation[i].pc = "awaitDepartures"
    /\ invocation'[i].pc \in {"awaitRuns", "done"}

\* this step is invocation i resuming from a call that failed
CallFails(i) ==
    /\ InFlight(i)
    /\ invocation[i].reply # undefined
    /\ Failed(invocation[i].reply)
    /\ invocation'[i].reply = undefined

\* the requests that invocation i has issued so far
Issued(i) ==
    LET inv == invocation[i]
    IN  {<< entries[j].id, kind >> : j \in 1..(inv.k - 1), kind \in {"runs", "departures"}}
        \cup (IF inv.pc = "idle" THEN {} ELSE {<< entries[inv.k].id, "runs" >>})
        \cup (IF inv.pc = "awaitDepartures"
                 \/ (inv.pc \in {"rejected", "done"} /\ inv.runs # undefined)
              THEN {<< entries[inv.k].id, "departures" >>} ELSE {})

AllRequests == {<< c.id, kind >> : c \in Range(entries), kind \in {"runs", "departures"}}

\* C1: when a poll of a connection completes, the table holds in that
\* connection's slot range exactly the Services of this poll's departures, so
\* that a slot the poll did not rewrite is gone.
C1_PollReplacesSlotRange ==
    [][\A i \in Invocations :
          PollCompletes(i) =>
             LET c == entries[invocation[i].k]
                 body == invocation[i].reply.body
                 count == IF Truthy(body, "departures") THEN Len(body.departures) ELSE 0
             IN  /\ Len(ServicesOf(services', c)) = count
                 /\ \A n \in 1..Len(services') :
                       services'[n].id \in SlotIds(c) => writer'[n] = i]_vars

\* C2: an invocation that a failed call has ended has issued the runs and the
\* departures request of every connection all the same.
C2_FailureDoesNotSkipConnections ==
    \A i \in Invocations : invocation[i].pc = "rejected" => Issued(i) = AllRequests

\* C3: at most one invocation of checkRoutes is between its start and its end.
C3_NoOverlappingRefresh ==
    Cardinality({i \in Invocations : InFlight(i)}) <= 1

\* C4: a step in which an invocation resumes from a failed call leaves the
\* Services of its connection as they were, and the Services of a connection
\* change only in a step in which a poll of that connection completes with a
\* call that did not fail.
C4_FailureKeepsServices ==
    [][/\ \A i \in Invocations :
             CallFails(i) =>
                ServicesOf(services', entries[invocation[i].k])
                   = ServicesOf(services, entries[invocation[i].k])
       /\ services' # services =>
             \A c \in Range(entries) :
                ServicesOf(services', c) # ServicesOf(services, c) =>
                   \E j \in Invocations :
                      /\ PollCompletes(j)
                      /\ entries[invocation[j].k] = c
                      /\ ~Failed(invocation[j].reply)]_vars

\* a call has failed for a connection that has Services in the table
C4_Witness ==
    \E i \in Invocations :
       /\ invocation[i].pc = "rejected"
       /\ ServicesOf(services, entries[invocation[i].k]) # << >>

\* C5: a step in which a poll of connection c completes changes no entry
\* outside the slot range of c, and leaves the Services of every other
\* connection as they were.
C5_OtherConnectionsUntouched ==
    [][\A i \in Invocations :
          PollCompletes(i) =>
             LET c == entries[invocation[i].k]
             IN  /\ \A n \in 1..Len(services') :
                       (n > Len(services) \/ services'[n] # services[n])
                          => services'[n].id \in SlotIds(c)
                 /\ \A d \in Range(entries) :
                       d # c => ServicesOf(services', d) = ServicesOf(services, d)]_vars

\* two connections with the same direction and origin stop both have Services
C5_Witness ==
    \E n, m \in 1..Len(services) :
       /\ services[n].route_id # services[m].route_id
       /\ writer[n] = writer[m]
       /\ \E c, d \in Range(entries) :
             /\ c.id = services[n].route_id
             /\ d.id = services[m].route_id
             /\ c.forward_direction.id = d.forward_direction.id
             /\ c.forward_direction.origin = d.forward_direction.origin

\* C6: no step takes a run out of the ever-active set.
C6_EverActiveGrows == [][everActive \subseteq everActive']_vars

\* an invocation has ended on a poll whose runs give no vehicle position for
\* r1, which is in the set
C6_Witness ==
    \E i \in Invocations :
       /\ invocation[i].pc = "done"
       /\ Truthy(invocation[i].runs, "runs")
       /\ \E run \in Range(invocation[i].runs.runs) :
             run.run_ref = "r1" /\ run.vehicle_position = null
       /\ "r1" \in everActive

\* C7: whenever a tick can run, the Services of each connection were all
\* stored by one and the same poll of that connection.
C7_ConnectionFromOnePoll ==
    now = tickDue =>
       \A n, m \in 1..Len(services) :
          services[n].route_id = services[m].route_id => writer[n] = writer[m]

\* C8: the Service that a poll stores for a departure has
\* getGoingBy = departureTime - walkBefore - buffer and
\* arriveBy = departureTime + avgDuration + walkAfter (in seconds), the
\* departure time being the estimate when there is one, else the schedule.
C8_Deadlines ==
    [][\A i \in Invocations :
          PollCompletes(i) /\ Truthy(invocation[i].reply.body, "departures") =>
             LET c == entries[invocation[i].k]
                 departures == invocation[i].reply.body.departures
             IN  \A index \in 0..(Len(departures) - 1) :
                    LET departure == departures[index + 1]
                        departureTime ==
                           IF departure.estimated_departure_utc = null
                           THEN departure.scheduled_departure_utc
                           ELSE departure.estimated_departure_utc[1]
                        walkBefore == c.walking[c.forward_direction.origin]
                        walkAfter == c.walking[c.forward_direction.destination]
                    IN  \E n \in 1..Len(services') :
                           /\ services'[n].id = << c.id, c.forward_direction.id,
                                                   c.forward_direction.origin, index >>
                           /\ services'[n].get_going_by
                                 = 1000 * (departureTime - walkBefore - buffer)
                           /\ services'[n].arrive_by
                                 = 1000 * (departureTime + c.duration.avg + walkAfter)]_vars

\* the table holds a Service of an estimated and one of a scheduled departure
C8_Witness ==
    \E n, m \in 1..Len(services) :
       /\ services[n].health.has_estimated
       /\ ~services[m].health.has_estimated

\* C9: the rows of a tick at time now are the Services of the table with
\* now - getGoingBy <= buffer, no more and no fewer.
C9_VisibleWithinBuffer ==
    [][tickDue' # tickDue =>
          /\ \A n \in 1..Len(services) :
                (\E r \in 1..Len(tableBody') : tableBody'[r].service = services[n])
                   <=> now - services[n].get_going_by <= buffer * 1000
          /\ \A r \in 1..Len(tableBody') :
                \E n \in 1..Len(services) : tableBody'[r].service = services[n]]_vars

\* a tick has just rendered a Service at the boundary and left out one past it
C9_Witness ==
    /\ tickDue = now + TickPeriod
    /\ \E r \in 1..Len(tableBody) :
          /\ now - tableBody[r].service.get_going_by = buffer * 1000
          /\ \E n \in 1..Len(services) : services[n] = tableBody[r].service
    /\ \E n \in 1..Len(services) :
          /\ now - services[n].get_going_by > buffer * 1000
          /\ \A r \in 1..Len(tableBody) : tableBody[r].service # services[n]

\* C10: the rows are in ascending order of arriveBy.
C10_RowsSortedByArrival ==
    \A r \in 1..(Len(tableBody) - 1) :
       tableBody[r].service.arrive_by <= tableBody[r + 1].service.arrive_by

\* rows of two connections, not in the order in which the table holds them
C10_Witness ==
    \E r, q \in 1..Len(tableBody) :
       /\ r < q
       /\ tableBody[r].service.route_id # tableBody[q].service.route_id
       /\ \E n, m \in 1..Len(services) :
             /\ services[n] = tableBody[r].service
             /\ services[m] = tableBody[q].service
             /\ m < n

\* the flags of a health record that are true
TrueFlags(health) == {flag \in DOMAIN health : health[flag]}

\* C11: the health score of a row is the number of true flags of its Service;
\* it is in 0..3, and rows with equally many true flags have the same score,
\* whichever flags these are.
C11_HealthScoreCountsFlags ==
    /\ \A r \in 1..Len(tableBody) :
          /\ DOMAIN tableBody[r].service.health
                = {"run_active", "has_estimated", "route_active"}
          /\ tableBody[r].healthScore = Cardinality(TrueFlags(tableBody[r].service.health))
          /\ tableBody[r].healthScore \in 0..3
    /\ \A r, q \in 1..Len(tableBody) :
          Cardinality(TrueFlags(tableBody[r].service.health))
             = Cardinality(TrueFlags(tableBody[q].service.health))
          => tableBody[r].healthScore = tableBody[q].healthScore

\* one tick has rendered a row of score 3 and two rows of score 2 whose true
\* flags are not the same
C11_Witness ==
    /\ \E r \in 1..Len(tableBody) : tableBody[r].healthScore = 3
    /\ \E r, q \in 1..Len(tableBody) :
          /\ tableBody[r].healthScore = 2
          /\ tableBody[q].healthScore = 2
          /\ TrueFlags(tableBody[r].service.health) # TrueFlags(tableBody[q].service.health)

\* C12: at most one request is outstanding, i.e. issued and not settled yet.
C12_OneOutstandingRequest ==
    Cardinality({i \in Invocations : InFlight(i) /\ invocation[i].reply = undefined}) <= 1

\* this step is invocation i resuming from a call that did not fail and whose
\* payload has no key `key`
ResumesWithout(i, key) ==
    /\ InFlight(i)
    /\ invocation[i].reply # undefined
    /\ ~Failed(invocation[i].reply)
    /\ key \notin DOMAIN invocation[i].reply.body
    /\ invocation'[i].reply = undefined

\* C13: a decoded payload without the key runs, or without the key departures,
\* does not end the invocation: it goes on to its next call (or is done).
\* Without runs, the ever-active set stays as it is and the Services that the
\* poll stores have routeActive = FALSE; without departures, the table stays
\* as it is.
C13_MissingKeyIsZeroResults ==
    [][\A i \in Invocations :
          /\ (invocation[i].pc = "awaitRuns" /\ ResumesWithout(i, "runs")) =>
                /\ invocation'[i].pc = "awaitDepartures"
                /\ invocation'[i].k = invocation[i].k
          /\ (invocation[i].pc = "awaitDepartures" /\ ResumesWithout(i, "departures")) =>
                /\ services' = services
                /\ IF invocation[i].k = Len(entries)
                   THEN invocation'[i].pc = "done"
                   ELSE /\ invocation'[i].pc = "awaitRuns"
                        /\ invocation'[i].k = invocation[i].k + 1
          /\ (PollCompletes(i) /\ ~Truthy(invocation[i].runs, "runs")) =>
                /\ everActive' = everActive
                /\ \A n \in 1..Len(services') :
                      (services'[n].id \in SlotIds(entries[invocation[i].k])
                       /\ writer'[n] = i)
                         => ~services'[n].health.route_active]_vars

\* an invocation is done whose first poll got no runs key but departures, and
\* whose last poll got runs but no departures key
C13_Witness ==
    \E i \in Invocations :
       /\ invocation[i].pc = "done"
       /\ Truthy(invocation[i].runs, "runs")
       /\ ServicesOf(services, entries[Len(entries)]) = << >>
       /\ \E n \in 1..Len(services) :
             /\ services[n].route_id = entries[1].id
             /\ ~services[n].health.route_active
             /\ writer[n] = i
       /\ everActive = {}

\* the window of service closes while the clock of SpecAging still runs
ClosesInTime(service) == AgingTicks * TickPeriod - service.get_going_by > buffer * 1000

\* C14: where every call fails from FailingFrom on, the rows of every Service
\* whose window closes in time are gone for good in the end, and every tick
\* up to the end of the clock fires.
C14_FailingConnectionAgesOut ==
    /\ <>[](\A r \in 1..Len(tableBody) : ~ClosesInTime(tableBody[r].service))
    /\ <>(tickDue > AgingTicks * TickPeriod)

\* a call has failed, the table still holds a Service of each connection whose
\* window has closed, and the last tick has rendered none of them
C14_Witness ==
    /\ tickDue > AgingTicks * TickPeriod
    /\ \E i \in DOMAIN invocation : invocation[i].pc = "rejected"
    /\ \A c \in Range(entries) :
          \E n \in 1..Len(services) :
             /\ services[n].route_id = c.id
             /\ ClosesInTime(services[n])
    /\ \A r \in 1..Len(tableBody) : ~ClosesInTime(tableBody[r].service)

\* an invocation is suspended on a request that the API has not settled
Suspended == \E i \in DOMAIN invocation : InFlight(i) /\ invocation[i].reply = undefined

\* C15: the clock never passes a due tick, and a tick that is due while an
\* invocation is suspended on a call fires, whether the call ever completes
\* or not.
C15_TicksDespitePendingCall ==
    /\ [](now <= tickDue)
    /\ (Suspended /\ now = tickDue) ~> (tickDue = now + TickPeriod)

\* the request issued at start was never settled, and every tick has fired
C15_Witness ==
    /\ invocation[1] = Entered
    /\ tickDue > AgingTicks * TickPeriod

\* the runs of a payload that have a vehicle position and the direction of c
ReportedActive(runs, c) ==
    IF "runs" \in DOMAIN runs
    THEN {ref \in {"r1", "r2"} :
            \E n \in 1..Len(runs.runs) :
               /\ runs.runs[n].run_ref = ref
               /\ runs.runs[n].vehicle_position # null
               /\ runs.runs[n].direction_id = c.forward_direction.id}
    ELSE {}

\* the Services that the poll of invocation i, which completes in this step,
\* stores
StoredBy(i) ==
    {n \in 1..Len(services') :
        /\ services'[n].id \in SlotIds(entries[invocation[i].k])
        /\ writer'[n] = i
        /\ Truthy(invocation[i].reply.body, "departures")
        /\ \E index \in 0..(Len(invocation[i].reply.body.departures) - 1) :
              services'[n].id[4] = index}

\* C16 as stated: the Service that a poll stores has runActive exactly if its
\* run is one that this poll's runs payload reports active.
C16_RunActiveIsThisPoll ==
    [][\A i \in Invocations :
          PollCompletes(i) =>
             \A n \in StoredBy(i) :
                services'[n].health.run_active
                   <=> services'[n].run_ref
                          \in ReportedActive(invocation[i].runs, entries[invocation[i].k])]_vars

\* C16 as amended: the Service that a poll stores has runActive exactly if its
\* run is in the ever-active set once this poll's active runs were added to
\* it, i.e. if this poll or any poll completed before it reported it active.
C16_RunActiveIsEverActive ==
    [][\A i \in Invocations :
          PollCompletes(i) =>
             \A n \in StoredBy(i) :
                services'[n].health.run_active
                   <=> services'[n].run_ref
                          \in everActive
                              \cup ReportedActive(invocation[i].runs,
                                                  entries[invocation[i].k])]_vars

\* the table holds a Service with runActive of a poll that had no active run
C16_Witness ==
    \E n \in 1..Len(services) :
       services[n].health.run_active /\ ~services[n].health.route_active

\* C17: the Services that a poll stores all have routeActive exactly if this
\* poll's runs payload reports some run active.
C17_RouteActiveIsThisPoll ==
    [][\A i \in Invocations :
          PollCompletes(i) =>
             \A n \in StoredBy(i) :
                services'[n].health.route_active
                   <=> ReportedActive(invocation[i].runs, entries[invocation[i].k]) # {}]_vars

\* an invocation is done whose last poll got a run with a position in another
\* direction only, and stored two Services with routeActive = FALSE, while the
\* other connection has a Service with routeActive = TRUE
C17_Witness ==
    \E i \in Invocations :
       /\ invocation[i].pc = "done"
       /\ Truthy(invocation[i].runs, "runs")
       /\ \E run \in Range(invocation[i].runs.runs) :
             /\ run.vehicle_position # null
             /\ run.direction_id # entries[Len(entries)].forward_direction.id
       /\ \E n, m \in 1..Len(services) :
             /\ n # m
             /\ services[n].route_id = entries[Len(entries)].id
             /\ services[m].route_id = entries[Len(entries)].id
             /\ writer[n] = i /\ writer[m] = i
             /\ ~services[n].health.route_active
             /\ ~services[m].health.route_active
       /\ \E n \in 1..Len(services) : services[n].health.route_active

\* C18 as stated: the k-th connection that an invocation visits is the k-th
\* connection that the catalog lists.
C18_VisitsInListedOrder ==
    \A i \in Invocations :
       invocation[i].pc # "idle" => entries[invocation[i].k] = connections[invocation[i].k]

\* C18 as amended: the k-th connection that an invocation visits is the one
\* with the k-th smallest route id; an invocation enters a connection with its
\* runs request and issues the departures request of the same connection when
\* it resumes from that.
C18_VisitsInRouteIdOrder ==
    /\ [](\A i \in Invocations :
             invocation[i].pc # "idle" =>
                /\ invocation[i].k \in 1..Len(connections)
                /\ \E n \in 1..Len(connections) :
                      /\ connections[n] = entries[invocation[i].k]
                      /\ Cardinality({m \in 1..Len(connections) :
                                         connections[m].id < connections[n].id})
                            = invocation[i].k - 1)
    /\ [][\A i \in Invocations :
             /\ (invocation'[i].k # invocation[i].k) =>
                   /\ invocation'[i].k = invocation[i].k + 1
                   /\ invocation'[i].pc = "awaitRuns"
                   /\ invocation[i].pc \in {"idle", "awaitDepartures"}
             /\ (invocation'[i].pc = "awaitDepartures" /\ invocation[i].pc # "awaitDepartures") =>
                   /\ invocation[i].pc = "awaitRuns"
                   /\ invocation'[i].k = invocation[i].k]_vars

\* an invocation has visited every connection, and the first one that the
\* catalog lists was not the first one it visited
C18_Witness ==
    /\ \E i \in Invocations : invocation[i].pc = "done" /\ invocation[i].k = Len(connections)
    /\ entries[1] # connections[1]

\* C19: after the runs call of a connection has returned and the departures
\* call of that connection has failed, the runs that the runs call reported
\* active are in the ever-active set.
C19_ObservedBeforeDepartures ==
    \A i \in Invocations :
       (invocation[i].pc = "rejected" /\ invocation[i].runs # undefined)
          => ReportedActive(invocation[i].runs, entries[invocation[i].k]) \subseteq everActive

C21_AtMostMaxResultsPerConnection ==
    \A n \in 1..Len(entries) :
       LET c == entries[n]
           ofC == SelectSeq(services, LAMBDA service : service.route_id = c.id)
       IN  /\ Len(ofC) <= max_results
           /\ \A m \in 1..Len(ofC) : ofC[m].id \in SlotIds(c)

\* C22: the published progress is the number of completed call phases of the
\* refresh in flight over twice the number of connections: it is within 0..1,
\* it does not decrease from a step of a refresh in flight to the next, and
\* it is 1 when a refresh ends after its last call succeeded.
C22_ProgressOfRefreshInFlight ==
    /\ [](/\ progressBar[2] = 2 * Len(entries)
          /\ progressBar[1] \in 0..progressBar[2]
          /\ \A i \in Invocations : InFlight(i) => progressBar[1] = invocation[i].currentStep)
    /\ [][\A i \in Invocations :
             /\ (InFlight(i) /\ invocation'[i].pc \in {"awaitRuns", "awaitDepartures", "done"})
                   => progressBar'[1] >= progressBar[1]
             /\ (InFlight(i) /\ invocation'[i].pc = "done")
                   => progressBar'[1] = progressBar'[2]]_vars

\* C23 as stated: the first refresh and the first tick both run at time 0;
\* the tick timer that is due since start fires at time 0.
C23_BothStartAtZero ==
    /\ (now = 0 /\ invocation[1].pc # "idle")
    /\ [][(tickDue = TickPeriod /\ tickDue' # tickDue) => now = 0]_vars

\* C23 as amended: the first refresh is started at time 0; a tick runs only
\* when a whole number of tick periods, and at least one, has passed since
\* start, and a further refresh only after a whole number of refresh periods;
\* the clock never passes a timer that is due, each timer is due again one
\* period after it fired, and both fire up to the end of the horizon.
C23_RefreshAtStartTickAfterOnePeriod ==
    /\ (now = 0 /\ invocation[1] = Entered)
    /\ [](now <= tickDue /\ now <= refreshDue)
    /\ [][/\ (tickDue' # tickDue) =>
                /\ now = tickDue
                /\ now >= TickPeriod /\ now % TickPeriod = 0
                /\ tickDue' = now + TickPeriod
          /\ (refreshDue' # refreshDue) =>
                /\ now = refreshDue
                /\ now >= RefreshPeriod /\ now % RefreshPeriod = 0
                /\ refreshDue' = now + RefreshPeriod
                /\ \E i \in InvocationsAging :
                      invocation[i].pc = "idle" /\ invocation'[i] = Entered]_vars
    /\ <>(tickDue > AgingTicks * TickPeriod /\ refreshDue > AgingTicks * TickPeriod)

\* the second refresh was started at one refresh period, after the tick of
\* that instant, which is the tick number RefreshPeriod / TickPeriod
C23_Witness ==
    /\ now = RefreshPeriod
    /\ refreshDue = 2 * RefreshPeriod
    /\ tickDue = RefreshPeriod + TickPeriod
    /\ invocation[2].pc # "idle"

\* the loaded catalog lacks the walking time of the origin or the destination
\* of the forward direction of a connection
Defective ==
    \E c \in Range(entries) :
       {c.forward_direction.origin, c.forward_direction.destination}
          \ DOMAIN loadedWalking[c.id] # {}

\* C24: a catalog that lacks a walking time is rejected at startup, so that
\* under such a catalog the tick publishes no row, and no Service in the
\* table has a deadline computed from a missing walking time.
C24_DefectiveCatalogRejected ==
    /\ Defective => tableBody = << >>
    /\ \A n \in 1..Len(services) :
          services[n].get_going_by # NaN /\ services[n].arrive_by # NaN

\* C25: a step in which the tick runs issues no request and resumes no
\* invocation, and leaves the table, with the Services that it does not
\* publish, and the ever-active set as they were.
C25_TickChangesNoTable ==
    [][(tickDue' # tickDue) =>
          /\ services' = services
          /\ everActive' = everActive
          /\ invocation' = invocation
          /\ \A i \in Invocations : Issued(i)' = Issued(i)
          /\ tableBody' = updateTable(services', now)]_vars

\* the tick has just published fewer rows than the table has Services
C25_Witness ==
    /\ now = tickDue - TickPeriod
    /\ tableBody = updateTable(services, now)
    /\ Len(tableBody) < Len(services)
    /\ Len(tableBody) > 0

\* C26: the ever-active set is empty at start, and a run enters it only in a
\* step that completes a poll whose runs payload, decoded from a successful
\* call, reports that run with a vehicle position and the forward direction
\* of the connection polled.
C26_EverActiveOnlyFromReports ==
    /\ everActive = {}
    /\ [][\A ref \in everActive' \ everActive :
             \E i \in Invocations :
                /\ PollCompletes(i)
                /\ invocation[i].runs # undefined
                /\ ref \in ReportedActive(invocation[i].runs, entries[invocation[i].k])]_vars

\* a refresh is done that got r1 as active for its first connection, and for
\* its last r1 without position and r2 with a position in another direction:
\* of the two only r1 is in the set
C26_Witness ==
    /\ everActive = {"r1"}
    /\ \E i \in Invocations :
          /\ invocation[i].pc = "done"
          /\ Truthy(invocation[i].runs, "runs")
          /\ \E run \in Range(invocation[i].runs.runs) :
                run.run_ref = "r2" /\ run.vehicle_position # null
          /\ \E run \in Range(invocation[i].runs.runs) :
                run.run_ref = "r1" /\ run.vehicle_position = null

\* C27 as stated: every Service in the table with runActive = TRUE has
\* routeActive = TRUE.
C27_RunActiveImpliesRouteActive ==
    \A n \in 1..Len(services) :
       services[n].health.run_active => services[n].health.route_active

\* C27 as amended: a Service whose run its own poll reports active is stored
\* with runActive = TRUE and routeActive = TRUE; a Service is stored with
\* runActive = TRUE and routeActive = FALSE exactly if its poll reports no
\* active run and its run was in the ever-active set before.
C27_RunActiveOfThisPollImpliesRouteActive ==
    [][\A i \in Invocations :
          PollCompletes(i) =>
             LET reported == ReportedActive(invocation[i].runs, entries[invocation[i].k])
             IN  \A n \in StoredBy(i) :
                    /\ services'[n].run_ref \in reported =>
                          /\ services'[n].health.run_active
                          /\ services'[n].health.route_active
                    /\ (services'[n].health.run_active /\ ~services'[n].health.route_active)
                          <=> (reported = {} /\ services'[n].run_ref \in everActive)]_vars

\* the table holds a Service with both flags and one with runActive only
C27_Witness ==
    \E n, m \in 1..Len(services) :
       /\ services[n].health.run_active /\ services[n].health.route_active
       /\ services[m].health.run_active /\ ~services[m].health.route_active
       /\ services[n].run_ref = services[m].run_ref

\* C28: a poll never overwrites a Service that an invocation stored which was
\* started only after this poll's departures request was issued, and whose
\* departures request of the connection is therefore the later one.
C28_NoOverwriteByOlderResponse ==
    [][\A i \in Invocations :
          PollCompletes(i) =>
             \A n \in StoredBy(i) :
                n <= Len(services) => writer[n] <= invocation[i].since]_vars

====
